---- MODULE Spec2Model ----
(***************************************************************************)
(* A model of first.py: the movie-metadata preprocessing pipeline.         *)
(*                                                                         *)
(*   extract_genre_names  (first.py 13-36)   pure function                 *)
(*   coerce_adult         (first.py 39-57)   pure function                 *)
(*   preprocess           (first.py 72-163)  sequential pipeline           *)
(*                                                                         *)
(* Python values are records tagged by their type in field t.  A text is   *)
(* the sequence of its lexemes: single characters for the flag texts that  *)
(* coerce_adult trims and lower-cases, Python tokens for the texts that    *)
(* ast.literal_eval parses.                                                *)
(***************************************************************************)
EXTENDS Integers, Sequences, FiniteSets, TLC

VARIABLES
    pc,            \* position of the running call
    arg,           \* argument of the pure function under call
    ret,           \* its outcome: a returned value or an escaped exception
    csv,           \* the table pd.read_csv loaded: column name -> cells
    nrows,         \* len(movies)
    movies,        \* the DataFrame movies: column name -> cells
    save_parquet,  \* argument of preprocess
    suffix,        \* output_path.suffix.lower()
    plot_path,     \* "none" or the path of the plot
    lang_cols,     \* names of the language indicator columns
    language_df,   \* rows of language indicators
    genre_cols,    \* names of the genre indicator columns
    genre_df,      \* rows of genre indicators
    processed_df,  \* the assembled table: [cols, rows]
    writes,        \* the write attempts made so far, in order
    disk,          \* the feature table on disk: its format and content
    plot,          \* the plot: not attempted, saved or failed
    raised         \* "none" or the exception that left preprocess

vars == <<pc, arg, ret, csv, nrows, movies, save_parquet, suffix, plot_path,
          lang_cols, language_df, genre_cols, genre_df, processed_df,
          writes, disk, plot, raised>>

(***************************************************************************)
(* Bounds of the model.                                                    *)
(***************************************************************************)
MaxLen == 3      \* longest flag text enumerated character by character
MaxElems == 2    \* longest structured list handed to extract_genre_names
MaxRows == 2     \* most rows of an input table

(***************************************************************************)
(* Python values.                                                          *)
(***************************************************************************)
PyNone == [t |-> "none"]
PyBool(b) == [t |-> "bool", b |-> b]
PyInt(n) == [t |-> "int", n |-> n]
\* A float is finite (cls "fin", value x2 / 2), nan, inf or -inf.
PyFloat(x2) == [t |-> "float", cls |-> "fin", x2 |-> x2]
NaN == [t |-> "float", cls |-> "nan", x2 |-> 0]
PosInf == [t |-> "float", cls |-> "inf", x2 |-> 0]
NegInf == [t |-> "float", cls |-> "-inf", x2 |-> 0]
PyStr(s) == [t |-> "str", s |-> s]
PyList(elts) == [t |-> "list", elts |-> elts]
\* A dict is the sequence of its <<key, value>> items in insertion order.
PyDict(items) == [t |-> "dict", items |-> items]
PySet(elts) == [t |-> "set", elts |-> elts]
PyTuple(elts) == [t |-> "tuple", elts |-> elts]

\* The outcome of a call.
Return(v) == [exc |-> "none", val |-> v]
Raise(e) == [exc |-> e]

Range(s) == {s[i] : i \in 1..Len(s)}

RECURSIVE SeqsUpTo(_, _)
SeqsUpTo(S, n) ==
    IF n = 0 THEN {<<>>}
    ELSE LET shorter == SeqsUpTo(S, n - 1)
         IN  shorter \cup {Append(s, x) : s \in {q \in shorter : Len(q) = n - 1}, x \in S}

(***************************************************************************)
(* str.strip() and str.lower() on a sequence of characters.                *)
(***************************************************************************)
Whitespace == {" ", "\t", "\n"}

RECURSIVE lstrip(_)
lstrip(s) ==
    IF s # <<>> /\ Head(s) \in Whitespace THEN lstrip(Tail(s)) ELSE s

RECURSIVE rstrip(_)
rstrip(s) ==
    IF s # <<>> /\ s[Len(s)] \in Whitespace
    THEN rstrip(SubSeq(s, 1, Len(s) - 1)) ELSE s

strip(s) == rstrip(lstrip(s))

lower_char(c) ==
    CASE c = "A" -> "a" [] c = "E" -> "e" [] c = "F" -> "f" [] c = "L" -> "l"
      [] c = "N" -> "n" [] c = "O" -> "o" [] c = "R" -> "r" [] c = "S" -> "s"
      [] c = "T" -> "t" [] c = "U" -> "u" [] c = "Y" -> "y" [] OTHER -> c

lower(s) == [i \in 1..Len(s) |-> lower_char(s[i])]

(***************************************************************************)
(* coerce_adult, first.py 39-57.                                           *)
(***************************************************************************)
Affirmative == {<<"t", "r", "u", "e">>, <<"t">>, <<"1">>, <<"y", "e", "s">>, <<"y">>}
Negative == {<<"f", "a", "l", "s", "e">>, <<"f">>, <<"0">>, <<"n", "o">>, <<"n">>}

\* bool(value) of an int or a float: nan and the infinities are truthy.
number_bool(value) ==
    IF value.t = "int" THEN value.n # 0
    ELSE value.cls # "fin" \/ value.x2 # 0

\* coerce_adult_text without the call of strip().
coerce_adult_text_unstripped(value) ==
    LET s == lower(value.s)
    IN  IF s \in Affirmative THEN Return(TRUE) ELSE Return(FALSE)

coerce_adult_text(value) ==
    LET s == lower(strip(value.s))
    IN  IF s \in Affirmative THEN Return(TRUE)
        ELSE IF s \in Negative THEN Return(FALSE)
        ELSE Return(FALSE)

coerce_adult(value) ==
    IF value.t = "bool" THEN Return(value.b)
    ELSE IF value.t \in {"int", "float"} THEN Return(number_bool(value))
    ELSE IF value.t = "str" THEN coerce_adult_text(value)
    ELSE Return(FALSE)

(***************************************************************************)
(* ast.literal_eval, as called at first.py 29.  A text is the sequence of  *)
(* its Python tokens.  parse builds the syntax tree of the expression      *)
(* (SyntaxError when there is none); convert is literal_eval's _convert:   *)
(* it raises ValueError on a node that is no literal and TypeError when a  *)
(* dict key or a set element is unhashable.                                *)
(***************************************************************************)
StringTokens == {"\"name\"", "'name'", "\"id\"", "\"Animation\"", "\"Comedy\"", "\"Drama\""}
NumberTokens == {"16", "1"}
NameTokens == {"name", "Animation", "null", "None"}

\* The characters between the quotes of a string token.
string_value(tok) ==
    CASE tok = "\"name\"" -> <<"name">>
      [] tok = "'name'" -> <<"name">>
      [] tok = "\"id\"" -> <<"id">>
      [] tok = "\"Animation\"" -> <<"Animation">>
      [] tok = "\"Comedy\"" -> <<"Comedy">>
      [] tok = "\"Drama\"" -> <<"Drama">>

number_value(tok) == CASE tok = "16" -> 16 [] tok = "1" -> 1

Constant(v) == [k |-> "Constant", value |-> v]
Name(id) == [k |-> "Name", id |-> id]
ListNode(elts) == [k |-> "List", elts |-> elts]
SetNode(elts) == [k |-> "Set", elts |-> elts]
DictNode(keys, values) == [k |-> "Dict", keys |-> keys, values |-> values]
TupleNode(elts) == [k |-> "Tuple", elts |-> elts]
Subscript == [k |-> "Subscript"]

Fail == [ok |-> FALSE]
Ok(node, rest) == [ok |-> TRUE, node |-> node, rest |-> rest]
Peek(toks) == IF toks = <<>> THEN "" ELSE Head(toks)

\* The recursive-descent parser of the expressions these tokens form.  Each
\* rule takes the tokens left and gives Fail, or Ok(node, tokens left):
\*   Expr        a primary: an atom and its "[" slices "]" trailers
\*   Atom        a constant, a name, a list display or a brace display
\*   Strings     adjacent string literals, which are one constant (a: its value)
\*   Trailers    the subscriptions that follow the primary a
\*   ElemsStart  the elements of a display up to its closing bracket a (b: the
\*               elements so far), where an element or the bracket may come
\*   ElemsAfter  the same, after an element: "," or the bracket
\*   DictStart   the items of a dict display (a: keys, b: values so far)
\*   DictAfter   the same, after an item: "," or "}"
\*   Brace       after "{": the empty dict, a dict display or a set display
\*   Slices      the slices of a subscription, up to its "]"
\*   SlicesAfter the same, after a slice
\*   Slice       one slice: expr, or [expr] ":" [expr] [":" [expr]]
\*   SliceUpper  after the first ":" of a slice
\*   SliceStep   after its second ":"
\*   TupleRest   after the "," of an unparenthesized tuple (a: elements so far)
RECURSIVE Parse(_, _, _, _)
Parse(rule, toks, a, b) ==
    LET tok == Peek(toks)
    IN
    CASE rule = "Expr" ->
            LET atom == Parse("Atom", toks, <<>>, <<>>)
            IN  IF ~atom.ok THEN Fail ELSE Parse("Trailers", atom.rest, atom.node, <<>>)
      [] rule = "Atom" ->
            IF tok \in StringTokens THEN Parse("Strings", toks, <<>>, <<>>)
            ELSE IF tok \in NumberTokens
                THEN Ok(Constant(PyInt(number_value(tok))), Tail(toks))
            ELSE IF tok = "None" THEN Ok(Constant(PyNone), Tail(toks))
            ELSE IF tok \in NameTokens THEN Ok(Name(tok), Tail(toks))
            ELSE IF tok = "[" THEN
                LET elems == Parse("ElemsStart", Tail(toks), "]", <<>>)
                IN  IF ~elems.ok THEN Fail ELSE Ok(ListNode(elems.node), elems.rest)
            ELSE IF tok = "{" THEN Parse("Brace", Tail(toks), <<>>, <<>>)
            ELSE Fail
      [] rule = "Strings" ->
            IF tok \in StringTokens
            THEN Parse("Strings", Tail(toks), a \o string_value(tok), <<>>)
            ELSE Ok(Constant(PyStr(a)), toks)
      [] rule = "Trailers" ->
            IF tok = "[" THEN
                LET s == Parse("Slices", Tail(toks), <<>>, <<>>)
                IN  IF ~s.ok THEN Fail ELSE Parse("Trailers", s.rest, Subscript, <<>>)
            ELSE Ok(a, toks)
      [] rule = "ElemsStart" ->
            IF toks = <<>> THEN Fail
            ELSE IF tok = a THEN Ok(b, Tail(toks))
            ELSE LET e == Parse("Expr", toks, <<>>, <<>>)
                 IN  IF ~e.ok THEN Fail
                     ELSE Parse("ElemsAfter", e.rest, a, Append(b, e.node))
      [] rule = "ElemsAfter" ->
            IF toks = <<>> THEN Fail
            ELSE IF tok = "," THEN Parse("ElemsStart", Tail(toks), a, b)
            ELSE IF tok = a THEN Ok(b, Tail(toks))
            ELSE Fail
      [] rule = "DictStart" ->
            IF toks = <<>> THEN Fail
            ELSE IF tok = "}" THEN Ok(DictNode(a, b), Tail(toks))
            ELSE LET key == Parse("Expr", toks, <<>>, <<>>)
                 IN  IF ~key.ok \/ Peek(key.rest) # ":" THEN Fail
                     ELSE LET v == Parse("Expr", Tail(key.rest), <<>>, <<>>)
                          IN  IF ~v.ok THEN Fail
                              ELSE Parse("DictAfter", v.rest,
                                         Append(a, key.node), Append(b, v.node))
      [] rule = "DictAfter" ->
            IF toks = <<>> THEN Fail
            ELSE IF tok = "," THEN Parse("DictStart", Tail(toks), a, b)
            ELSE IF tok = "}" THEN Ok(DictNode(a, b), Tail(toks))
            ELSE Fail
      [] rule = "Brace" ->
            IF tok = "}" THEN Ok(DictNode(<<>>, <<>>), Tail(toks))
            ELSE LET first == Parse("Expr", toks, <<>>, <<>>)
                 IN  IF ~first.ok THEN Fail
                     ELSE IF Peek(first.rest) = ":"
                         THEN Parse("DictStart", toks, <<>>, <<>>)
                     ELSE LET elems == Parse("ElemsAfter", first.rest, "}", <<first.node>>)
                          IN  IF ~elems.ok THEN Fail
                              ELSE Ok(SetNode(elems.node), elems.rest)
      [] rule = "Slices" ->
            LET s == Parse("Slice", toks, <<>>, <<>>)
            IN  IF ~s.ok THEN Fail ELSE Parse("SlicesAfter", s.rest, <<>>, <<>>)
      [] rule = "SlicesAfter" ->
            IF tok = "]" THEN Ok(Subscript, Tail(toks))
            ELSE IF tok = "," THEN
                IF Peek(Tail(toks)) = "]" THEN Ok(Subscript, Tail(Tail(toks)))
                ELSE Parse("Slices", Tail(toks), <<>>, <<>>)
            ELSE Fail
      [] rule = "Slice" ->
            IF tok = ":" THEN Parse("SliceUpper", Tail(toks), <<>>, <<>>)
            ELSE LET low == Parse("Expr", toks, <<>>, <<>>)
                 IN  IF ~low.ok THEN Fail
                     ELSE IF Peek(low.rest) = ":"
                         THEN Parse("SliceUpper", Tail(low.rest), <<>>, <<>>)
                     ELSE low
      [] rule = "SliceUpper" ->
            LET upper == IF tok \in {":", ",", "]", ""} THEN Ok(Subscript, toks)
                         ELSE Parse("Expr", toks, <<>>, <<>>)
            IN  IF ~upper.ok THEN Fail
                ELSE IF Peek(upper.rest) = ":"
                    THEN Parse("SliceStep", Tail(upper.rest), <<>>, <<>>)
                ELSE upper
      [] rule = "SliceStep" ->
            IF tok \in {",", "]", ""} THEN Ok(Subscript, toks)
            ELSE Parse("Expr", toks, <<>>, <<>>)
      [] rule = "TupleRest" ->
            IF toks = <<>> THEN Ok(TupleNode(a), toks)
            ELSE LET e == Parse("Expr", toks, <<>>, <<>>)
                 IN  IF ~e.ok THEN Fail
                     ELSE IF e.rest = <<>> THEN Ok(TupleNode(Append(a, e.node)), e.rest)
                     ELSE IF Head(e.rest) = ","
                         THEN Parse("TupleRest", Tail(e.rest), Append(a, e.node), <<>>)
                     ELSE Fail

parsed_or_error(r) == IF r.ok THEN Return(r.node) ELSE Raise("SyntaxError")

\* The whole text is the expression e, or the tuple that e begins.
parse_rest(e) ==
    IF ~e.ok THEN Raise("SyntaxError")
    ELSE IF e.rest = <<>> THEN Return(e.node)
    ELSE IF Head(e.rest) = ","
        THEN parsed_or_error(Parse("TupleRest", Tail(e.rest), <<e.node>>, <<>>))
    ELSE Raise("SyntaxError")

\* ast.parse(text, mode="eval"): one expression, or a tuple of them.
parse(toks) == parse_rest(Parse("Expr", toks, <<>>, <<>>))

Hashable(v) == v.t \notin {"list", "dict", "set"}

DictHas(d, key) == \E i \in 1..Len(d.items) : d.items[i][1] = key
DictGet(d, key) ==
    LET i == CHOOSE j \in 1..Len(d.items) : d.items[j][1] = key IN d.items[i][2]
\* d[key] = v: a present key keeps its place and takes the new value.
DictPut(items, key, v) ==
    IF \E i \in 1..Len(items) : items[i][1] = key
    THEN [i \in 1..Len(items) |-> IF items[i][1] = key THEN <<key, v>> ELSE items[i]]
    ELSE Append(items, <<key, v>>)

RECURSIVE convert(_), convert_list(_, _), convert_set(_, _), convert_dict(_, _, _)
RECURSIVE convert_tuple(_, _)

convert_list(elts, acc) ==
    IF elts = <<>> THEN Return(PyList(acc))
    ELSE LET e == convert(Head(elts))
         IN  IF e.exc # "none" THEN e ELSE convert_list(Tail(elts), Append(acc, e.val))

convert_tuple(elts, acc) ==
    IF elts = <<>> THEN Return(PyTuple(acc))
    ELSE LET e == convert(Head(elts))
         IN  IF e.exc # "none" THEN e ELSE convert_tuple(Tail(elts), Append(acc, e.val))

convert_set(elts, acc) ==
    IF elts = <<>> THEN Return(PySet(acc))
    ELSE LET e == convert(Head(elts))
         IN  IF e.exc # "none" THEN e
             ELSE IF ~Hashable(e.val) THEN Raise("TypeError")
             ELSE convert_set(Tail(elts),
                              IF e.val \in Range(acc) THEN acc ELSE Append(acc, e.val))

\* dict(zip(map(_convert, keys), map(_convert, values))): key, value, insert.
convert_dict(keys, values, acc) ==
    IF keys = <<>> THEN Return(PyDict(acc))
    ELSE LET key == convert(Head(keys))
         IN  IF key.exc # "none" THEN key
             ELSE LET v == convert(Head(values))
                  IN  IF v.exc # "none" THEN v
                      ELSE IF ~Hashable(key.val) THEN Raise("TypeError")
                      ELSE convert_dict(Tail(keys), Tail(values),
                                        DictPut(acc, key.val, v.val))

convert(node) ==
    CASE node.k = "Constant" -> Return(node.value)
      [] node.k = "List" -> convert_list(node.elts, <<>>)
      [] node.k = "Tuple" -> convert_tuple(node.elts, <<>>)
      [] node.k = "Set" -> convert_set(node.elts, <<>>)
      [] node.k = "Dict" -> convert_dict(node.keys, node.values, <<>>)
      [] OTHER -> Raise("ValueError")

convert_parsed(tree) == IF tree.exc # "none" THEN tree ELSE convert(tree.val)

literal_eval(toks) == convert_parsed(parse(toks))

(***************************************************************************)
(* extract_genre_names, first.py 13-36.                                    *)
(***************************************************************************)
NameKey == PyStr(<<"name">>)

\* [g.get("name", "") for g in elts if isinstance(g, dict) and "name" in g]
RECURSIVE names_of(_)
names_of(elts) ==
    IF elts = <<>> THEN <<>>
    ELSE LET g == Head(elts)
         IN  IF g.t = "dict" /\ DictHas(g, NameKey)
             THEN <<DictGet(g, NameKey)>> \o names_of(Tail(elts))
             ELSE names_of(Tail(elts))

\* first.py 28-36, given the outcome of ast.literal_eval: ValueError and
\* SyntaxError are caught, any other exception leaves the function.
names_of_parsed(parsed) ==
    IF parsed.exc \in {"ValueError", "SyntaxError"} THEN Return(PyList(<<>>))
    ELSE IF parsed.exc # "none" THEN parsed
    ELSE IF parsed.val.t = "list" THEN Return(PyList(names_of(parsed.val.elts)))
    ELSE Return(PyList(<<>>))

extract_genre_names(genres_value) ==
    IF genres_value.t = "list" THEN Return(PyList(names_of(genres_value.elts)))
    ELSE IF genres_value.t = "str" THEN names_of_parsed(literal_eval(genres_value.s))
    ELSE Return(PyList(<<>>))

(***************************************************************************)
(* The column transforms of preprocess, first.py 85-110.  A column is the  *)
(* sequence of its cells, a DataFrame a function from column names to      *)
(* columns.                                                                *)
(***************************************************************************)
NoTable == [cols |-> <<>>, rows |-> <<>>]
NoFile == [fmt |-> "none", table |-> NoTable]
NoPlot == [status |-> "none", counts |-> <<>>]

Filled(n, v) == [i \in 1..n |-> v]

\* movies.get(name, default)
get(frame, name, default) == IF name \in DOMAIN frame THEN frame[name] ELSE default

\* movies[name] = column
Put(frame, name, column) ==
    [c \in DOMAIN frame \cup {name} |-> IF c = name THEN column ELSE frame[c]]

\* The column of the values returned, or the first exception raised.
collect(results) ==
    IF \E i \in 1..Len(results) : results[i].exc # "none"
    THEN Raise(results[CHOOSE i \in 1..Len(results) :
                           /\ results[i].exc # "none"
                           /\ \A j \in 1..(i - 1) : results[j].exc = "none"].exc)
    ELSE Return([i \in 1..Len(results) |-> results[i].val])

\* Series.apply(extract_genre_names)
apply_extract(column) ==
    collect([i \in 1..Len(column) |-> extract_genre_names(column[i])])

digit_value(c) ==
    CASE c = "0" -> 0 [] c = "1" -> 1 [] c = "2" -> 2 [] c = "3" -> 3 [] c = "4" -> 4
      [] c = "5" -> 5 [] c = "6" -> 6 [] c = "7" -> 7 [] c = "8" -> 8 [] c = "9" -> 9
Digits == {"0", "1", "2", "3", "4", "5", "6", "7", "8", "9"}

RECURSIVE digits_value(_)
digits_value(s) ==
    IF s = <<>> THEN 0
    ELSE 10 * digits_value(SubSeq(s, 1, Len(s) - 1)) + digit_value(s[Len(s)])

\* pd.to_numeric(errors="coerce") of one cell, as a float.
to_numeric(cell) ==
    CASE cell.t = "int" -> PyFloat(2 * cell.n)
      [] cell.t = "float" -> cell
      [] cell.t = "str" ->
            LET s == cell.s
                neg == s # <<>> /\ Head(s) = "-"
                body == IF neg THEN Tail(s) ELSE s
            IN  IF body # <<>> /\ Range(body) \subseteq Digits
                THEN PyFloat((IF neg THEN -2 ELSE 2) * digits_value(body))
                ELSE NaN
      [] OTHER -> NaN

\* movies.loc[movies["budget"] == 0, "budget"] = np.nan
zero_to_nan(v) == IF v.cls = "fin" /\ v.x2 = 0 THEN NaN ELSE v

\* fillna(0)
fillna_zero(v) == IF v.cls = "nan" THEN PyFloat(0) ELSE v

\* log(1 + x) in millionths, on the finite values the budgets of the model take.
Log1pMicro(x2) ==
    CASE x2 = -1 -> -693147
      [] x2 = 0 -> 0
      [] x2 = 2 -> 693147
      [] x2 = 200 -> 4615121
      [] x2 = 2000000 -> 13815512

\* np.log1p: nan below -1, -inf at -1.
log1p(v) ==
    CASE v.cls = "nan" -> [cls |-> "nan", micro |-> 0]
      [] v.cls = "inf" -> [cls |-> "inf", micro |-> 0]
      [] v.cls = "-inf" -> [cls |-> "nan", micro |-> 0]
      [] v.x2 < -2 -> [cls |-> "nan", micro |-> 0]
      [] v.x2 = -2 -> [cls |-> "-inf", micro |-> 0]
      [] OTHER -> [cls |-> "fin", micro |-> Log1pMicro(v.x2)]

Min(S) == CHOOSE x \in S : \A y \in S : x <= y
Max(S) == CHOOSE x \in S : \A y \in S : x >= y

NormNaN == [cls |-> "nan", num |-> 0, den |-> 1]
\* The scaled value num / den.
Norm(num, den) == [cls |-> "fin", num |-> num, den |-> den]

\* MinMaxScaler().fit_transform of one column: an empty column or an infinite
\* value is a ValueError; nan is left out of the fit and stays nan; a zero
\* range scales by 1.
min_max_scale(column) ==
    LET n == Len(column)
        finite == {column[i].micro : i \in {j \in 1..n : column[j].cls = "fin"}}
    IN  IF n = 0 \/ \E i \in 1..n : column[i].cls \in {"inf", "-inf"}
        THEN Raise("ValueError")
        ELSE IF finite = {} THEN Return(Filled(n, NormNaN))
        ELSE LET data_min == Min(finite)
                 data_range == Max(finite) - data_min
                 scale == IF data_range = 0 THEN 1 ELSE data_range
             IN  Return([i \in 1..n |->
                            IF column[i].cls = "nan" THEN NormNaN
                            ELSE Norm(column[i].micro - data_min, scale)])

\* first.py 89-91: the budget as a number, nan where it is missing or zero.
numeric_budget(column) ==
    [i \in 1..Len(column) |-> zero_to_nan(to_numeric(column[i]))]

\* first.py 92-94, of the numeric budget
budget_norm_of(numeric) ==
    min_max_scale([i \in 1..Len(numeric) |-> log1p(fillna_zero(numeric[i]))])

\* Series.apply(coerce_adult)
apply_coerce(column) == [i \in 1..Len(column) |-> PyBool(coerce_adult(column[i]).val)]

IsNaN(cell) == cell.t = "float" /\ cell.cls = "nan"

\* fillna("unknown") without effect.
fillna_skipped(column) == column

\* fillna("unknown")
fillna_unknown(column) ==
    [i \in 1..Len(column) |-> IF IsNaN(column[i]) THEN PyStr(<<"unknown">>) ELSE column[i]]

\* str(value), in pieces.
py_str(v) ==
    CASE v.t = "str" -> v.s
      [] v.t = "int" -> <<ToString(v.n)>>
      [] v.t = "none" -> <<"None">>
      [] v.t = "bool" -> IF v.b THEN <<"True">> ELSE <<"False">>
      [] v.t = "float" /\ v.cls = "nan" -> <<"nan">>
      [] OTHER -> <<v.t>>

\* The order of the texts of the model under Python's string comparison.
Lexicon == <<"", "Animation", "Comedy", "Drama", "None", "en", "fr", "id", "name", "unknown">>
text_rank(s) ==
    IF s = <<>> THEN 1
    ELSE IF \E i \in 1..Len(Lexicon) : Lexicon[i] = Head(s)
         THEN CHOOSE i \in 1..Len(Lexicon) : Lexicon[i] = Head(s)
         ELSE Len(Lexicon) + 1

sort_key(v) ==
    CASE v.t = "int" -> v.n
      [] v.t = "str" -> text_rank(v.s)
      [] OTHER -> Len(Lexicon) + 2

\* sorted(values)
RECURSIVE sorted(_)
sorted(values) ==
    IF values = {} THEN <<>>
    ELSE LET least == CHOOSE x \in values : \A y \in values : sort_key(x) <= sort_key(y)
         IN  <<least>> \o sorted(values \ {least})

\* OneHotEncoder.fit_transform of one column: the categories are the sorted
\* distinct values, a row has a 1 under its own value.
one_hot_categories(column) == sorted(Range(column))
one_hot(column, categories) ==
    [i \in 1..Len(column) |->
        [j \in 1..Len(categories) |-> IF column[i] = categories[j] THEN 1 ELSE 0]]

\* A row of the binarizer that counts each occurrence of a label.
RECURSIVE occurrences(_, _)
occurrences(labels, class) ==
    IF labels = <<>> THEN 0
    ELSE (IF Head(labels) = class THEN 1 ELSE 0) + occurrences(Tail(labels), class)
indicator_row_counting(labels, classes) ==
    [j \in 1..Len(classes) |-> occurrences(labels, classes[j])]

indicator_row(labels, classes) ==
    [j \in 1..Len(classes) |-> IF classes[j] \in Range(labels) THEN 1 ELSE 0]

\* MultiLabelBinarizer.fit_transform: an unhashable label is a TypeError, and so
\* is the sort of labels of several types (np.unique); classes_ are the sorted
\* distinct labels.
multi_label(lists) ==
    LET labels == UNION {Range(lists[i].elts) : i \in 1..Len(lists)}
    IN  IF \E l \in labels : ~Hashable(l) THEN Raise("TypeError")
        ELSE IF Cardinality(labels) > 1 /\
                (Cardinality({l.t : l \in labels}) > 1 \/ \E l \in labels : l.t = "none")
            THEN Raise("TypeError")
        ELSE LET classes == sorted(labels)
             IN  Return([classes |-> classes,
                         rows |-> [i \in 1..Len(lists) |->
                                      indicator_row(lists[i].elts, classes)]])

\* astype(np.uint8)
U8(n) == [t |-> "uint8", n |-> n % 256]
as_uint8(rows) ==
    [i \in 1..Len(rows) |-> [j \in 1..Len(rows[i]) |-> U8(rows[i][j])]]

\* The names of the indicator columns: the prefix and str(category).
prefixed(prefix, categories) ==
    [j \in 1..Len(categories) |-> <<prefix>> \o py_str(categories[j])]

(***************************************************************************)
(* The assembly, first.py 112-125.                                         *)
(***************************************************************************)
Passthrough == <<"id", "original_title", "overview", "budget_norm", "adult">>

RECURSIVE present(_, _)
present(names, frame) ==
    IF names = <<>> THEN <<>>
    ELSE (IF Head(names) \in DOMAIN frame THEN <<Head(names)>> ELSE <<>>)
             \o present(Tail(names), frame)

\* pd.concat(axis=1) that takes the genre block in reverse row order.
concat_misaligned(frame, base_cols, gcols, gdf, lcols, ldf, n) ==
    [cols |-> [k \in 1..Len(base_cols) |-> <<base_cols[k]>>] \o gcols \o lcols,
     rows |-> [i \in 1..n |->
                  [k \in 1..Len(base_cols) |-> frame[base_cols[k]][i]]
                      \o gdf[n + 1 - i] \o ldf[i]]]

\* pd.concat([movies[base_cols], genre_df, language_df], axis=1), all three
\* with the index 0..n-1.
concat(frame, base_cols, gcols, gdf, lcols, ldf, n) ==
    [cols |-> [k \in 1..Len(base_cols) |-> <<base_cols[k]>>] \o gcols \o lcols,
     rows |-> [i \in 1..n |->
                  [k \in 1..Len(base_cols) |-> frame[base_cols[k]][i]]
                      \o gdf[i] \o ldf[i]]]

(***************************************************************************)
(* Saving, first.py 127-142, and the plot, first.py 144-163.  The file     *)
(* system decides which calls fail.                                        *)
(***************************************************************************)
Write(fmt, table, ok) == [fmt |-> fmt, table |-> table, ok |-> ok]
File(fmt, table) == [fmt |-> fmt, table |-> table]
Saved(attempts, file, exc) == [writes |-> attempts, disk |-> file, raised |-> exc]

\* Saving where a failing Parquet write is re-raised instead of falling back.
save_output_no_fallback(table, as_parquet, mkdir_ok, parquet_ok, csv_ok) ==
    IF ~mkdir_ok THEN Saved(<<>>, NoFile, "OSError")
    ELSE IF as_parquet THEN
        IF parquet_ok
        THEN Saved(<<Write("parquet", table, TRUE)>>, File("parquet", table), "none")
        ELSE Saved(<<Write("parquet", table, FALSE)>>, NoFile, "ImportError")
    ELSE IF csv_ok
        THEN Saved(<<Write("csv", table, TRUE)>>, File("csv", table), "none")
    ELSE Saved(<<Write("csv", table, FALSE)>>, NoFile, "OSError")

\* mkdir, then to_parquet with to_csv as its fallback, or to_csv alone.
save_output(table, as_parquet, mkdir_ok, parquet_ok, csv_ok) ==
    IF ~mkdir_ok THEN Saved(<<>>, NoFile, "OSError")
    ELSE IF as_parquet THEN
        IF parquet_ok
        THEN Saved(<<Write("parquet", table, TRUE)>>, File("parquet", table), "none")
        ELSE IF csv_ok
            THEN Saved(<<Write("parquet", table, FALSE), Write("csv", table, TRUE)>>,
                       File("csv", table), "none")
        ELSE Saved(<<Write("parquet", table, FALSE), Write("csv", table, FALSE)>>,
                   NoFile, "OSError")
    ELSE IF csv_ok
        THEN Saved(<<Write("csv", table, TRUE)>>, File("csv", table), "none")
    ELSE Saved(<<Write("csv", table, FALSE)>>, NoFile, "OSError")

RECURSIVE column_sum(_, _)
column_sum(rows, k) ==
    IF rows = <<>> THEN 0 ELSE Head(rows)[k].n + column_sum(Tail(rows), k)

\* processed_df[genre_cols].sum(): the bars of the plot.
genre_counts(table, gcols) ==
    { <<gcols[j], column_sum(table.rows, CHOOSE k \in 1..Len(table.cols) :
                                             table.cols[k] = gcols[j])>>
        : j \in 1..Len(gcols) }

PlotFailures == {"none", "counts", "render", "mkdir", "savefig"}

\* The plot where an exception leaves the call.
visualize_unguarded(table, gcols, failure) ==
    IF failure = "none"
    THEN [plot |-> [status |-> "saved", counts |-> genre_counts(table, gcols)],
          raised |-> "none"]
    ELSE [plot |-> [status |-> "failed", counts |-> <<>>], raised |-> "Exception"]

\* try: ... except Exception: print(...)
visualize(table, gcols, failure) ==
    IF failure = "none"
    THEN [plot |-> [status |-> "saved", counts |-> genre_counts(table, gcols)],
          raised |-> "none"]
    ELSE [plot |-> [status |-> "failed", counts |-> <<>>], raised |-> "none"]

(***************************************************************************)
(* preprocess, first.py 72-163, step by step.                              *)
(***************************************************************************)
Genres ==
    /\ pc = "genres"
    /\ \E r \in {apply_extract(get(movies, "genres", Filled(nrows, NaN)))} :
          IF r.exc # "none"
          THEN /\ raised' = r.exc /\ pc' = "raised" /\ movies' = movies
          ELSE /\ movies' = Put(movies, "genres_list", r.val)
               /\ pc' = "budget" /\ raised' = raised
    /\ UNCHANGED <<arg, ret, csv, nrows, save_parquet, suffix, plot_path, lang_cols,
                   language_df, genre_cols, genre_df, processed_df, writes, disk, plot>>

Budget ==
    /\ pc = "budget"
    /\ \E numeric \in {numeric_budget(get(movies, "budget", Filled(nrows, NaN)))} :
       \E r \in {budget_norm_of(numeric)} :
          IF r.exc # "none"
          THEN /\ raised' = r.exc /\ pc' = "raised"
               /\ movies' = Put(movies, "budget", numeric)
          ELSE /\ movies' = Put(Put(movies, "budget", numeric), "budget_norm", r.val)
               /\ pc' = "adult" /\ raised' = raised
    /\ UNCHANGED <<arg, ret, csv, nrows, save_parquet, suffix, plot_path, lang_cols,
                   language_df, genre_cols, genre_df, processed_df, writes, disk, plot>>

Adult ==
    /\ pc = "adult"
    /\ movies' = Put(movies, "adult",
                     apply_coerce(get(movies, "adult", Filled(nrows, PyBool(FALSE)))))
    /\ pc' = "language"
    /\ UNCHANGED <<arg, ret, csv, nrows, save_parquet, suffix, plot_path, lang_cols,
                   language_df, genre_cols, genre_df, processed_df, writes, disk, plot,
                   raised>>

Language ==
    /\ pc = "language"
    /\ \E column \in {fillna_unknown(get(movies, "original_language",
                                         Filled(nrows, PyStr(<<"unknown">>))))} :
       \E categories \in {one_hot_categories(column)} :
          /\ movies' = Put(movies, "original_language", column)
          /\ lang_cols' = prefixed("lang_", categories)
          /\ language_df' = as_uint8(one_hot(column, categories))
    /\ pc' = "genre_indicators"
    /\ UNCHANGED <<arg, ret, csv, nrows, save_parquet, suffix, plot_path,
                   genre_cols, genre_df, processed_df, writes, disk, plot, raised>>

GenreIndicators ==
    /\ pc = "genre_indicators"
    /\ \E r \in {multi_label(movies["genres_list"])} :
          IF r.exc # "none"
          THEN /\ raised' = r.exc /\ pc' = "raised"
               /\ UNCHANGED <<genre_cols, genre_df>>
          ELSE /\ genre_cols' = prefixed("genre_", r.val.classes)
               /\ genre_df' = as_uint8(r.val.rows)
               /\ pc' = "assemble" /\ raised' = raised
    /\ UNCHANGED <<arg, ret, csv, nrows, movies, save_parquet, suffix, plot_path,
                   lang_cols, language_df, processed_df, writes, disk, plot>>

Assemble ==
    /\ pc = "assemble"
    /\ processed_df' = concat(movies, present(Passthrough, movies), genre_cols, genre_df,
                              lang_cols, language_df, nrows)
    /\ pc' = "save"
    /\ UNCHANGED <<arg, ret, csv, nrows, movies, save_parquet, suffix, plot_path,
                   lang_cols, language_df, genre_cols, genre_df, writes, disk, plot,
                   raised>>

Save ==
    /\ pc = "save"
    /\ \E mkdir_ok \in BOOLEAN, parquet_ok \in BOOLEAN, csv_ok \in BOOLEAN :
          \E r \in {save_output(processed_df, save_parquet \/ suffix = ".parquet",
                                mkdir_ok, parquet_ok, csv_ok)} :
              /\ writes' = r.writes
              /\ disk' = r.disk
              /\ raised' = r.raised
              /\ pc' = IF r.raised = "none" THEN "plot" ELSE "raised"
    /\ UNCHANGED <<arg, ret, csv, nrows, movies, save_parquet, suffix, plot_path,
                   lang_cols, language_df, genre_cols, genre_df, processed_df, plot>>

Visualize ==
    /\ pc = "plot"
    /\ IF plot_path # "none" /\ Len(genre_cols) > 0
       THEN \E failure \in PlotFailures :
               \E r \in {visualize(processed_df, genre_cols, failure)} :
                   /\ plot' = r.plot
                   /\ raised' = r.raised
                   /\ pc' = IF r.raised = "none" THEN "done" ELSE "raised"
       ELSE /\ pc' = "done" /\ UNCHANGED <<plot, raised>>
    /\ UNCHANGED <<arg, ret, csv, nrows, movies, save_parquet, suffix, plot_path,
                   lang_cols, language_df, genre_cols, genre_df, processed_df, writes,
                   disk>>

Next ==
    \/ Genres \/ Budget \/ Adult \/ Language \/ GenreIndicators
    \/ Assemble \/ Save \/ Visualize

(***************************************************************************)
(* The tables pd.read_csv loads.  The cells of a column are of one family  *)
(* of values (the dtype pandas infers for the column); an empty cell is    *)
(* nan.  The passthrough cells tell the rows apart.                        *)
(***************************************************************************)
AllColumns == {"genres", "budget", "adult", "original_language",
               "id", "original_title", "overview"}

ComedyText == PyStr(<<"[", "{", "'name'", ":", "\"Comedy\"", "}", "]">>)
DramaComedyText ==
    PyStr(<<"[", "{", "'name'", ":", "\"Drama\"", "}", ",",
            "{", "'name'", ":", "\"Comedy\"", "}", "]">>)
GenreCells ==
    {{ ComedyText, DramaComedyText,
       PyStr(<<"[", "{", "'name'", ":", "\"Comedy\"", "}", ",",
               "{", "'name'", ":", "\"Comedy\"", "}", "]">>),
       PyStr(<<"[", "{", "\"id\"", ":", "16", ",", "\"name\"", ":", "\"Animation\"", "}", "]">>),
       PyStr(<<"[", "]">>),
       PyStr(<<"[", "{", "name", ":", "Animation">>),
       PyStr(<<"[", "{", "'name'", ":", "16", "}", "]">>),
       PyStr(<<"[", "{", "{", "}", "}", "]">>),
       NaN }}

BudgetCells ==
    { {PyInt(0), PyInt(1), PyInt(100), PyInt(1000000), PyInt(-1), PyInt(-5)},
      {PyFloat(0), PyFloat(200), PyFloat(-1), PosInf, NaN},
      {PyStr(<<"1", "0", "0">>), PyStr(<<"0">>), PyStr(<<"a", "b", "c">>),
       PyStr(<<"1", "0", "0", "0", "0", "0", "0">>), PyStr(<<"-", "5">>), NaN} }

AdultCells ==
    { {PyBool(TRUE), PyBool(FALSE)},
      {PyBool(TRUE), PyBool(FALSE), NaN},
      {PyInt(0), PyInt(1)},
      {PyFloat(0), PyFloat(2), NaN},
      {PyStr(<<"T", "r", "u", "e">>), PyStr(<<"F", "a", "l", "s", "e">>),
       PyStr(<<"n", "o">>), PyStr(<<"x">>), NaN} }

LanguageCells == {{PyStr(<<"en">>), PyStr(<<"fr">>), PyStr(<<"unknown">>), NaN}}

ColumnsOver(n, families) == UNION {[1..n -> family] : family \in families}

Frame(names, n, genres, budget, adult, language) ==
    [c \in names |->
        CASE c = "genres" -> genres
          [] c = "budget" -> budget
          [] c = "adult" -> adult
          [] c = "original_language" -> language
          [] c = "id" -> [i \in 1..n |-> PyInt(100 + i)]
          [] c = "original_title" -> [i \in 1..n |-> PyStr(<<"title", ToString(i)>>)]
          [] c = "overview" -> [i \in 1..n |-> PyStr(<<"overview", ToString(i)>>)]]

Frames(names, n, G, B, A, L) ==
    { Frame(names, n, g, b, a, l) :
        g \in IF "genres" \in names THEN ColumnsOver(n, G) ELSE {<<>>},
        b \in IF "budget" \in names THEN ColumnsOver(n, B) ELSE {<<>>},
        a \in IF "adult" \in names THEN ColumnsOver(n, A) ELSE {<<>>},
        l \in IF "original_language" \in names THEN ColumnsOver(n, L) ELSE {<<>>} }

\* preprocess is entered with the table loaded and nothing computed.
Loaded(schemas, G, B, A, L) ==
    /\ pc = "genres" /\ arg = PyNone /\ ret = Raise("pending")
    /\ nrows \in 0..MaxRows
    /\ \E names \in schemas : csv \in Frames(names, nrows, G, B, A, L)
    /\ movies = csv
    /\ lang_cols = <<>> /\ language_df = <<>>
    /\ genre_cols = <<>> /\ genre_df = <<>>
    /\ processed_df = NoTable /\ writes = <<>> /\ disk = NoFile
    /\ plot = NoPlot /\ raised = "none"

CsvWithPlot ==
    save_parquet = FALSE /\ suffix = ".csv" /\ plot_path = "plots/genres.png"

Without(c) == {AllColumns, AllColumns \ {c}}
OneGenre == {{ComedyText}}
OneBudget == {{PyInt(100)}}
OneAdult == {{PyBool(FALSE)}}
OneLanguage == {{PyStr(<<"en">>)}}

\* The whole table varies, over two cells a column.
Init ==
    /\ Loaded({AllColumns, {"genres", "budget", "adult", "original_language"},
               {"id", "overview"}},
              {{DramaComedyText, NaN}}, {{PyInt(100), PyInt(0)}},
              {{PyStr(<<"T", "r", "u", "e">>), NaN}}, {{PyStr(<<"fr">>), NaN}})
    /\ CsvWithPlot

Spec == Init /\ [][Next]_vars

\* One column varies over all its cells.
InitGenres == Loaded(Without("genres"), GenreCells, OneBudget, OneAdult, OneLanguage)
                  /\ CsvWithPlot
InitBudget == Loaded(Without("budget"), OneGenre, BudgetCells, OneAdult, OneLanguage)
                  /\ CsvWithPlot
InitAdult == Loaded(Without("adult"), OneGenre, OneBudget, AdultCells, OneLanguage)
                  /\ CsvWithPlot
InitLanguage == Loaded(Without("original_language"), OneGenre, OneBudget, OneAdult,
                       LanguageCells) /\ CsvWithPlot

SpecGenres == InitGenres /\ [][Next]_vars
SpecBudget == InitBudget /\ [][Next]_vars
SpecAdult == InitAdult /\ [][Next]_vars
SpecLanguage == InitLanguage /\ [][Next]_vars

\* The arguments of preprocess vary.
InitIO ==
    /\ Loaded({AllColumns}, {{ComedyText, NaN}}, OneBudget, OneAdult, OneLanguage)
    /\ save_parquet \in BOOLEAN
    /\ suffix \in {".csv", ".parquet"}
    /\ plot_path \in {"none", "plots/genres.png"}

SpecIO == InitIO /\ [][Next]_vars

(***************************************************************************)
(* The pure functions under call: the argument is drawn from the values a  *)
(* caller can hand over, one action applies the function.                  *)
(***************************************************************************)
FlagAlphabet == {" ", "t", "T", "1", "0", "n", "O", "y", "x"}
FlagSamples ==
    { <<"t", "r", "u", "e">>, <<"T", "R", "U", "E">>, <<"T", "r", "u", "e">>,
      <<" ", "Y", "e", "s", " ">>, <<"y", "e", "s", "\n">>, <<"\t", "N", "O">>,
      <<"f", "a", "l", "s", "e">>, <<"F", "a", "l", "s", "e">>, <<"F">>, <<"f", " ">>,
      <<"t", "r", "u", "e", "x">>, <<"t", " ", "r", "u", "e">>, <<"y", "e">> }
FlagTexts == SeqsUpTo(FlagAlphabet, MaxLen) \cup FlagSamples

CoerceInputs ==
    {PyBool(b) : b \in BOOLEAN}
        \cup {PyInt(n) : n \in -1..2}
        \cup {PyFloat(x2) : x2 \in {-2, 0, 1, 7}}
        \cup {NaN, PosInf, NegInf, PyNone}
        \cup {PyStr(s) : s \in FlagTexts}

\* The elements of a structured genres list.
Str1(piece) == PyStr(<<piece>>)
GenreElements ==
    { PyDict(<<<<Str1("name"), Str1("Comedy")>>>>),
      PyDict(<<<<Str1("name"), Str1("Drama")>>>>),
      PyDict(<<<<Str1("id"), PyInt(16)>>, <<Str1("name"), Str1("Animation")>>>>),
      PyDict(<<<<Str1("id"), PyInt(1)>>>>),
      PyDict(<<<<Str1("name"), PyNone>>>>),
      Str1("name"),
      PyInt(16),
      PyNone }

GenreTokens == {"[", "]", "{", "}", ":", ",", "\"name\"", "\"Animation\"", "16", "name"}
\* '[{"id": 16, "name": "Animation"}]', "[{name: Animation", and further texts
\* of the shapes a genres cell takes.
GenreSamples ==
    { <<"[", "{", "\"id\"", ":", "16", ",", "\"name\"", ":", "\"Animation\"", "}", "]">>,
      <<"[", "{", "name", ":", "Animation">>,
      <<"[", "{", "\"id\"", ":", "1", "}", "]">>,
      <<"[", "{", "'name'", ":", "\"Comedy\"", "}", "]">>,
      <<"[", "{", "'name'", ":", "\"Drama\"", "}", ",", "{", "'name'", ":", "\"Comedy\"", "}", "]">>,
      <<"[", "{", "'name'", ":", "\"Comedy\"", "}", ",", "{", "'name'", ":", "\"Comedy\"", "}", "]">>,
      <<"[", "{", "'name'", ":", "\"Drama\"", ",", "'name'", ":", "\"Comedy\"", "}", "]">>,
      <<"[", "{", "'name'", ":", "null", "}", "]">>,
      <<"[", "16", ",", "{", "'name'", ":", "\"Comedy\"", "}", ",", "[", "]", "]">>,
      <<"{", "'name'", ":", "\"Comedy\"", "}">>,
      <<"{", "[", "16", "]", ":", "1", "}">>,
      <<"[", "{", "'name'", ":", "\"Comedy\"", "}", ",", "{", "[", "]", ":", "1", "}", "]">>,
      <<"[", "{", "{", "}", "}", "]">>,
      <<"[", "{", "'name'", ":", "16", "}", "]">>,
      <<"16">>,
      <<"None">> }
GenreTexts == SeqsUpTo(GenreTokens, MaxLen) \cup GenreSamples

ExtractInputs ==
    {PyList(elts) : elts \in SeqsUpTo(GenreElements, MaxElems)}
        \cup {PyStr(toks) : toks \in GenreTexts}
        \cup {PyNone, NaN, PyInt(16), PyFloat(7), PyBool(TRUE)}

\* The pipeline at rest, while a pure function is under call.
Idle ==
    /\ csv = <<>> /\ nrows = 0 /\ movies = <<>>
    /\ save_parquet = FALSE /\ suffix = ".csv" /\ plot_path = "none"
    /\ lang_cols = <<>> /\ language_df = <<>>
    /\ genre_cols = <<>> /\ genre_df = <<>>
    /\ processed_df = NoTable /\ writes = <<>> /\ disk = NoFile
    /\ plot = NoPlot /\ raised = "none"

pipeline == <<csv, nrows, movies, save_parquet, suffix, plot_path,
              lang_cols, language_df, genre_cols, genre_df, processed_df,
              writes, disk, plot, raised>>

InitCoerce ==
    /\ pc = "coerce_adult" /\ arg \in CoerceInputs /\ ret = Raise("pending")
    /\ Idle

CallCoerce ==
    /\ pc = "coerce_adult"
    /\ ret' = coerce_adult(arg)
    /\ pc' = "returned"
    /\ UNCHANGED <<arg, pipeline>>

SpecCoerce == InitCoerce /\ [][CallCoerce]_vars

InitExtract ==
    /\ pc = "extract_genre_names" /\ arg \in ExtractInputs /\ ret = Raise("pending")
    /\ Idle

CallExtract ==
    /\ pc = "extract_genre_names"
    /\ ret' = extract_genre_names(arg)
    /\ pc' = "returned"
    /\ UNCHANGED <<arg, pipeline>>

SpecExtract == InitExtract /\ [][CallExtract]_vars

(***************************************************************************)
(* Claims about the pure functions.                                        *)
(***************************************************************************)
SameLetter(c, d) ==
    c = d \/ <<c, d>> \in { <<"A", "a">>, <<"E", "e">>, <<"F", "f">>, <<"L", "l">>,
                            <<"N", "n">>, <<"O", "o">>, <<"R", "r">>, <<"S", "s">>,
                            <<"T", "t">>, <<"U", "u">>, <<"Y", "y">> }

\* s is the word w between surrounding whitespace, whatever the case.
TrimmedIs(s, w) ==
    \E i \in 0..Len(s) :
        /\ i + Len(w) <= Len(s)
        /\ \A k \in 1..i : s[k] \in Whitespace
        /\ \A k \in 1..Len(w) : SameLetter(s[i + k], w[k])
        /\ \A k \in (i + Len(w) + 1)..Len(s) : s[k] \in Whitespace

YesWords == {<<"t", "r", "u", "e">>, <<"t">>, <<"1">>, <<"y", "e", "s">>, <<"y">>}
NoWords == {<<"f", "a", "l", "s", "e">>, <<"f">>, <<"0">>, <<"n", "o">>, <<"n">>}

C2_NeverRaises ==
    pc = "returned" => ret.exc = "none" /\ ret.val.t = "list"

\* The names of the elements that are mappings with a "name" key, in order.
RECURSIVE NamesIn(_)
NamesIn(elts) ==
    IF elts = <<>> THEN <<>>
    ELSE LET rest == NamesIn(SubSeq(elts, 1, Len(elts) - 1))
             g == elts[Len(elts)]
         IN  IF g.t = "dict" /\ \E i \in 1..Len(g.items) : g.items[i][1] = PyStr(<<"name">>)
             THEN Append(rest, (CHOOSE it \in Range(g.items) : it[1] = PyStr(<<"name">>))[2])
             ELSE rest

\* C10: for a list, or a text that parses to a list, extract_genre_names
\* returns the names of the elements that are mappings with a "name" key, in
\* element order, duplicates kept; for a text that fails to parse or parses to
\* something else, and for any other type, it returns the empty list.
C10_ExtractsNames ==
    pc = "returned" =>
        LET parsed == IF arg.t = "str" THEN literal_eval(arg.s) ELSE Raise("n/a")
            expected ==
                IF arg.t = "list" THEN NamesIn(arg.elts)
                ELSE IF parsed.exc = "none" /\ parsed.val.t = "list"
                    THEN NamesIn(parsed.val.elts)
                ELSE <<>>
        IN  ret = Return(PyList(expected))

(***************************************************************************)
(* Claims about preprocess.                                                *)
(***************************************************************************)
\* The feature table has been assembled.
Assembled == processed_df # NoTable

HasColumn(name) == \E k \in 1..Len(processed_df.cols) : processed_df.cols[k] = name
Cell(i, name) ==
    processed_df.rows[i][CHOOSE k \in 1..Len(processed_df.cols) :
                             processed_df.cols[k] = name]
\* The positions of the columns of a feature group.
Group(prefix) ==
    {k \in 1..Len(processed_df.cols) : Head(processed_df.cols[k]) = prefix}

\* The cell of input record i, nan where the column is absent.
Input(name, i) == IF name \in DOMAIN csv THEN csv[name][i] ELSE NaN

\* C1: in the table produced, every record whose adult field is missing (the
\* column is absent, or the record's cell is empty) has adult = false.
C1_MissingAdultIsFalse ==
    Assembled =>
        \A i \in 1..nrows :
            IsNaN(Input("adult", i)) => Cell(i, <<"adult">>) = PyBool(FALSE)

\* The budget of a cell is missing, unparseable or zero.
MissingOrZero(cell) ==
    \/ IsNaN(cell)
    \/ cell.t = "int" /\ cell.n = 0
    \/ cell.t = "float" /\ cell.cls = "fin" /\ cell.x2 = 0
    \/ cell.t = "str" /\ (cell.s = <<"0">> \/ ~(Range(cell.s) \subseteq Digits \cup {"-"}))

BudgetFailed ==
    pc = "raised" /\ "genres_list" \in DOMAIN movies /\ "budget_norm" \notin DOMAIN movies

\* C4: whatever the batch of budget values, every budget_norm of the table
\* produced lies in [0, 1]; in a batch (of at least one record) where every
\* value is missing or zero the computation does not fail and every
\* budget_norm is 0.0.
C4_BudgetNormInUnitInterval ==
    /\ Assembled =>
          \A i \in 1..nrows :
              LET x == Cell(i, <<"budget_norm">>)
              IN  x.cls = "fin" /\ 0 <= x.num /\ x.num <= x.den
    /\ (nrows > 0 /\ \A i \in 1..nrows : MissingOrZero(Input("budget", i))) =>
          /\ ~BudgetFailed
          /\ Assembled => \A i \in 1..nrows : Cell(i, <<"budget_norm">>) = Norm(0, 1)

\* The category names extracted from the genres of input record i.
NamesOf(i) == Range(extract_genre_names(Input("genres", i)).val.elts)
Vocabulary == UNION {NamesOf(i) : i \in 1..nrows}
GenreColumn(name) == <<"genre_">> \o py_str(name)

RECURSIVE SumOver(_, _)
SumOver(row, ks) ==
    IF ks = {} THEN 0
    ELSE LET k == CHOOSE x \in ks : TRUE IN row[k].n + SumOver(row, ks \ {k})

\* C7: the table produced has one genre indicator column per distinct category
\* name of the batch; for every row and every such column the value is 1 iff
\* the name occurs in the row's extracted list, else 0; so the indicators of a
\* row sum to the number of distinct names of its list.
C7_GenreIndicators ==
    Assembled =>
        /\ {processed_df.cols[k] : k \in Group("genre_")}
               = {GenreColumn(name) : name \in Vocabulary}
        /\ Cardinality(Group("genre_")) = Cardinality(Vocabulary)
        /\ \A i \in 1..nrows :
              /\ \A name \in Vocabulary :
                    Cell(i, GenreColumn(name)).n = IF name \in NamesOf(i) THEN 1 ELSE 0
              /\ SumOver(processed_df.rows[i], Group("genre_")) = Cardinality(NamesOf(i))

\* A table with a row that names one category twice, and a row that names none
\* beside a row that names some.
C7_Witness ==
    /\ Assembled
    /\ \E i \in 1..nrows :
          LET names == extract_genre_names(Input("genres", i)).val.elts
          IN  Len(names) = 2 /\ Cardinality(Range(names)) = 1
    /\ \E i \in 1..nrows : NamesOf(i) = {}
    /\ Vocabulary # {}

\* The language of input record i, "unknown" where it is missing.
LanguageOf(i) ==
    IF IsNaN(Input("original_language", i)) THEN <<"unknown">>
    ELSE Input("original_language", i).s

\* C8: in the table produced every row has exactly one language indicator
\* equal to 1 and all others 0; the 1 is in the column named after the row's
\* original_language, and in the column of "unknown" where that is missing.
C8_OneLanguagePerRow ==
    Assembled =>
        \A i \in 1..nrows :
            /\ HasColumn(<<"lang_">> \o LanguageOf(i))
            /\ \A k \in Group("lang_") :
                  processed_df.rows[i][k].n =
                      IF processed_df.cols[k] = <<"lang_">> \o LanguageOf(i) THEN 1 ELSE 0
            /\ Cardinality({k \in Group("lang_") : processed_df.rows[i][k].n = 1}) = 1

\* A table where a row without language stands beside a row with one.
C8_Witness ==
    /\ Assembled
    /\ \E i, j \in 1..nrows :
          /\ IsNaN(Input("original_language", i))
          /\ "original_language" \in DOMAIN csv
          /\ LanguageOf(j) = <<"fr">>
          /\ Cell(i, <<"lang_", "unknown">>).n = 1

AfterSave == pc \in {"plot", "done"} \/ (pc = "raised" /\ Assembled)
NoWriteSucceeded == \A k \in 1..Len(writes) : ~writes[k].ok

\* C5, as claimed: when persisting the feature table fails, a fallback write
\* in the other format is attempted before the run gives up; the fallback
\* writes the table already assembled; and if no write succeeds the error
\* reaches the caller.
C5_FallbackOnAnyFailure ==
    /\ (writes # <<>> /\ ~writes[1].ok) =>
          /\ Len(writes) >= 2
          /\ writes[2].fmt # writes[1].fmt
          /\ writes[2].table = processed_df
    /\ (AfterSave /\ NoWriteSucceeded) => raised # "none"

\* C5, amended: when the Parquet write fails, one CSV write of the table
\* already assembled is attempted; a failing CSV write, primary or fallback,
\* is followed by no other write; every write is of the assembled table; and
\* if no write succeeds the error reaches the caller, so a run that goes on
\* has the assembled table on disk.
C5_ParquetFallsBackToCsv ==
    /\ (writes # <<>> /\ writes[1].fmt = "parquet" /\ ~writes[1].ok) =>
          Len(writes) = 2 /\ writes[2].fmt = "csv"
    /\ \A k \in 1..Len(writes) :
          /\ writes[k].table = processed_df
          /\ (writes[k].fmt = "csv" /\ ~writes[k].ok) => k = Len(writes)
    /\ (AfterSave /\ NoWriteSucceeded) => pc = "raised" /\ raised # "none"
    /\ pc \in {"plot", "done"} =>
          /\ \E k \in 1..Len(writes) : writes[k].ok
          /\ disk.fmt # "none" /\ disk.table = processed_df

\* The Parquet write failed and the CSV fallback saved the run.
C5_Witness ==
    /\ pc = "done"
    /\ Len(writes) = 2
    /\ ~writes[1].ok /\ writes[1].fmt = "parquet"
    /\ writes[2].ok /\ writes[2].fmt = "csv"
    /\ disk = File("csv", processed_df)

\* C6: the plot is attempted only once the feature table is written, and
\* whatever fails in it, preprocess ends normally with the table on disk and
\* the assembled table as they were.
C6_PlotIsolated ==
    [][pc = "plot" =>
          /\ disk.fmt # "none"
          /\ pc' = "done" /\ raised' = "none"
          /\ disk' = disk /\ processed_df' = processed_df]_vars

\* The plot has failed and the run is over.
C6_Witness ==
    /\ pc = "done" /\ plot.status = "failed"
    /\ raised = "none" /\ disk.fmt # "none"

====
